---- MODULE Spec2Model ----
(***************************************************************************)
(* Model of the service validation scripts:                                *)
(*   hosting   - the hosting validator (validateBackendService,            *)
(*               validateMultipleEndpoints, comprehensiveHostValidation,   *)
(*               hostingValidation), the JavaScript held in                *)
(*               src/validate-service.sh from line 34 on                   *)
(*   shell     - src/comprehensive-validation.sh                           *)
(*   advanced  - src/advanced-validate.js                                  *)
(*   simple    - src/validate-service.js                                   *)
(* One run of one script is one behaviour; the network is the environment, *)
(* which answers every HTTP GET with a status code or a transport error.   *)
(***************************************************************************)
EXTENDS Integers, Sequences, FiniteSets

VARIABLES
    script,           \* which script this run executes
    pc,               \* position of the script
    probed,           \* the HTTP GETs issued so far, with the answer each got
    basicResult,      \* hosting: result of validateBackendService
    results,          \* hosting: results.endpoints
    summary,          \* hosting: results.summary
    report,           \* hosting: value returned by comprehensiveHostValidation
    success_count,    \* shell: success_count
    success_rate,     \* shell: success_rate
    overall_status,   \* shell: overall_status
    stdout,           \* shell: one entry per line printed by validate_single_endpoint
    validation_result,\* shell: $? of run_comprehensive_validation
    isServiceRunning, \* advanced: isServiceRunning in completeValidation
    allValid,         \* advanced: allValid in validateMultipleEndpoints
    completeResult,   \* advanced: value returned by completeValidation
    events,           \* simple: the request events delivered so far
    promise,          \* simple: state of the promise returned by validateService
    destroyed,        \* simple: req.destroy() has been called
    exitCode          \* process exit code

vars == <<script, pc, probed, basicResult, results, summary, report,
          success_count, success_rate, overall_status, stdout, validation_result,
          isServiceRunning, allValid, completeResult,
          events, promise, destroyed, exitCode>>

hostingVars  == <<basicResult, results, summary, report>>
shellVars    == <<success_count, success_rate, overall_status, stdout, validation_result>>
advancedVars == <<isServiceRunning, allValid, completeResult>>
simpleVars   == <<events, promise, destroyed>>

----------------------------------------------------------------------------
(* The environment: what one HTTP GET can yield.                           *)

Scripts == {"hosting", "shell", "advanced", "simple"}

\* Status codes a server can answer with: the edges of every band the code tests.
Statuses == {100, 200, 300, 404, 500}

\* error.code of a request that got no response.
ErrorCodes == {"ECONNREFUSED", "ETIMEDOUT"}

Response(s) == [kind |-> "response", status |-> s, code |-> "NONE"]
TransportError(c) == [kind |-> "error", status |-> 0, code |-> c]

Outcomes == {Response(s) : s \in Statuses} \cup {TransportError(c) : c \in ErrorCodes}

\* null / undefined / unset
Null == [null |-> TRUE]

BaseUrl == "/"

Probe(path, o) == [path |-> path, outcome |-> o]

----------------------------------------------------------------------------
(* The demo server                                                         *)

\* The demo server with a /status route added.
DemoServer_WithStatus(path) ==
    IF path \in {"/", "/health", "/api/status", "/users", "/status"} THEN 200 ELSE 404

\* The status the demo server answers a GET of path with: 200 on its four
\* routes, 404 from the handler of undefined routes.
DemoServer(path) ==
    IF path \in {"/", "/health", "/api/status", "/users"} THEN 200 ELSE 404

----------------------------------------------------------------------------
(* axios                                                                   *)

\* validateStatus of axios when the caller gives none.
DefaultValidateStatus(status) == status >= 200 /\ status < 300

\* axios.get resolves when a response came and validateStatus accepts it,
\* and rejects otherwise (with error.response set when a response came).
AxiosResolves(o, accepts) == o.kind = "response" /\ accepts

----------------------------------------------------------------------------
(* The hosting validator                                                   *)

HV_endpoints ==
    << [path |-> "/",           name |-> "Home"],
       [path |-> "/health",     name |-> "Health Check"],
       [path |-> "/api/status", name |-> "API Status"],
       [path |-> "/api/health", name |-> "API Health"],
       [path |-> "/status",     name |-> "Status"] >>

\* validateStatus left at the axios default.
HV_validateStatus_Default(status) == status >= 200 /\ status < 300

\* validateStatus: (status) => status < 500
HV_validateStatus(status) == status < 500

\* The object validateBackendService returns.
validateBackendService(o) ==
    IF AxiosResolves(o, HV_validateStatus(o.status))
    THEN [success |-> TRUE,  status |-> o.status, error |-> "NONE"]
    ELSE [success |-> FALSE,
          status  |-> IF o.kind = "response" THEN o.status ELSE 0,
          error   |-> IF o.code \in ErrorCodes THEN o.code
                      ELSE IF o.kind = "response" THEN "Server error" ELSE "Error connecting"]

\* success of an entry pushed in the try branch.
HV_success(status) == status >= 200 /\ status < 300

\* The entry the loop body pushes to results.endpoints for one endpoint.
HV_endpointResult(endpoint, o) ==
    IF AxiosResolves(o, DefaultValidateStatus(o.status))
    THEN [path |-> endpoint.path, name |-> endpoint.name,
          status |-> o.status, code |-> "NONE",
          success |-> HV_success(o.status), threw |-> FALSE]
    ELSE [path |-> endpoint.path, name |-> endpoint.name,
          status |-> IF o.kind = "response" THEN o.status ELSE 0,
          code   |-> IF o.kind = "response" THEN "NONE" ELSE o.code,
          success |-> FALSE, threw |-> TRUE]

\* The filter dropped: every recorded entry is counted.
CountSuccess_All(eps) == Len(eps)

\* results.endpoints.filter(ep => ep.success).length
RECURSIVE CountSuccess(_)
CountSuccess(eps) ==
    IF eps = <<>> THEN 0
    ELSE (IF Head(eps).success THEN 1 ELSE 0) + CountSuccess(Tail(eps))

\* Math.round(num / den) for num >= 0, den > 0: halves round up.
MathRound(num, den) == (2 * num + den) \div (2 * den)

\* results.summary
HV_summary(eps, total) ==
    LET successfulEndpoints == CountSuccess(eps)
    IN [total |-> total,
        successful |-> successfulEndpoints,
        failed |-> total - successfulEndpoints,
        successRate |-> MathRound(successfulEndpoints * 100, total)]

HV_overallStatus(successRate) ==
    IF successRate = 100 THEN "HEALTHY"
    ELSE IF successRate >= 50 THEN "DEGRADED" ELSE "UNHEALTHY"

\* The loop left at the first failed probe.
HV_loopContinues_UntilFailure(eps) ==
    /\ Len(eps) < Len(HV_endpoints)
    /\ IF eps = <<>> THEN TRUE ELSE eps[Len(eps)].success

\* for (const endpoint of endpoints): the loop goes on while endpoints are left.
HV_loopContinues(eps) == Len(eps) < Len(HV_endpoints)

\* The early return on a failed pre-check left out.
HV_skipDetailed_Never(basic) == FALSE

\* What comprehensiveHostValidation does once the pre-check has answered.
HV_skipDetailed(basic) == ~basic.success

HV_failedReport(basic) ==
    [url |-> BaseUrl, timestamp |-> "now", basicConnectivity |-> basic,
     detailedValidation |-> Null, overallStatus |-> "FAILED"]

HV_fullReport(basic, detailed) ==
    [url |-> BaseUrl, timestamp |-> "now", basicConnectivity |-> basic,
     detailedValidation |-> detailed,
     overallStatus |-> HV_overallStatus(detailed.summary.successRate)]

\* Exit code 1 kept for UNHEALTHY only.
HV_exitCode_UnhealthyOnly(overallStatus) == IF overallStatus = "UNHEALTHY" THEN 1 ELSE 0

HV_exitCode(overallStatus) == IF overallStatus = "HEALTHY" THEN 0 ELSE 1

\* comprehensiveHostValidation up to the first request of the loop.
HV_validateBackendService ==
    /\ script = "hosting" /\ pc = "start"
    /\ \E o \in Outcomes :
         LET basic == validateBackendService(o) IN
         /\ probed' = Append(probed, Probe(BaseUrl, o))
         /\ basicResult' = basic
         /\ IF HV_skipDetailed(basic)
            THEN /\ report' = HV_failedReport(basic)
                 /\ pc' = "returned"
            ELSE /\ report' = report
                 /\ pc' = "loop"
    /\ UNCHANGED <<script, results, summary, shellVars, advancedVars, simpleVars, exitCode>>

\* One iteration of the for loop of validateMultipleEndpoints.
HV_validateMultipleEndpoints ==
    /\ script = "hosting" /\ pc = "loop"
    /\ HV_loopContinues(results)
    /\ \E o \in Outcomes :
         LET endpoint == HV_endpoints[Len(results) + 1] IN
         /\ probed' = Append(probed, Probe(endpoint.path, o))
         /\ results' = Append(results, HV_endpointResult(endpoint, o))
    /\ UNCHANGED <<script, pc, basicResult, summary, report,
                   shellVars, advancedVars, simpleVars, exitCode>>

\* The summary after the loop, and the rest of comprehensiveHostValidation.
HV_comprehensiveHostValidation ==
    /\ script = "hosting" /\ pc = "loop"
    /\ ~HV_loopContinues(results)
    /\ summary' = HV_summary(results, Len(HV_endpoints))
    /\ report' = HV_fullReport(basicResult, [endpoints |-> results, summary |-> summary'])
    /\ pc' = "returned"
    /\ UNCHANGED <<script, probed, basicResult, results,
                   shellVars, advancedVars, simpleVars, exitCode>>

\* hostingValidation and process.exit(exitCode).
hostingValidation ==
    /\ script = "hosting" /\ pc = "returned"
    /\ exitCode' = HV_exitCode(report.overallStatus)
    /\ pc' = "exited"
    /\ UNCHANGED <<script, probed, hostingVars, shellVars, advancedVars, simpleVars>>

----------------------------------------------------------------------------
(* The shell comprehensive validator                                       *)

SH_endpoints ==
    << [path |-> "/",           name |-> "Home"],
       [path |-> "/health",     name |-> "Health Check"],
       [path |-> "/api/status", name |-> "API Status"],
       [path |-> "/api/health", name |-> "API Health"],
       [path |-> "/status",     name |-> "Status"],
       [path |-> "/api",        name |-> "API Root"] >>

\* Exit status 0 of `curl -f -s`: a response came and its status is below 400.
SH_curlFailOk(o) == o.kind = "response" /\ o.status < 400

\* curl -w "%{http_code}": the status of the response, 000 when none came.
SH_httpCode(o) == IF o.kind = "response" THEN o.status ELSE 0

\* validate_single_endpoint with -le 300 in place of -lt 300.
validate_single_endpoint_Le300(endpoint, http_code) ==
    IF http_code >= 200 /\ http_code <= 300
    THEN [endpoint |-> endpoint.path, http_code |-> http_code, mark |-> "ok", rc |-> 0]
    ELSE IF http_code >= 300 /\ http_code < 500
    THEN [endpoint |-> endpoint.path, http_code |-> http_code, mark |-> "warning", rc |-> 1]
    ELSE [endpoint |-> endpoint.path, http_code |-> http_code, mark |-> "error", rc |-> 1]

\* The line validate_single_endpoint prints and the status it returns.
validate_single_endpoint(endpoint, http_code) ==
    IF http_code >= 200 /\ http_code < 300
    THEN [endpoint |-> endpoint.path, http_code |-> http_code, mark |-> "ok", rc |-> 0]
    ELSE IF http_code >= 300 /\ http_code < 500
    THEN [endpoint |-> endpoint.path, http_code |-> http_code, mark |-> "warning", rc |-> 1]
    ELSE [endpoint |-> endpoint.path, http_code |-> http_code, mark |-> "error", rc |-> 1]

\* The division done before the multiplication.
SH_successRate_DivFirst(count, total) == (count \div total) * 100

\* $((success_count * 100 / total_count)): integer division.
SH_successRate(count, total) == (count * 100) \div total

\* The DEGRADED band with -gt 50 in place of -ge 50.
SH_overallStatus_Gt50(rate) ==
    IF rate = 100 THEN "HEALTHY"
    ELSE IF rate > 50 THEN "DEGRADED" ELSE "UNHEALTHY"

SH_overallStatus(rate) ==
    IF rate = 100 THEN "HEALTHY"
    ELSE IF rate >= 50 THEN "DEGRADED" ELSE "UNHEALTHY"

\* The status run_comprehensive_validation returns after the summary.
SH_returnStatus(rate) == IF rate = 100 THEN 0 ELSE 1

\* run_comprehensive_validation up to the loop: the basic connectivity test.
SH_basicConnectivity ==
    /\ script = "shell" /\ pc = "start"
    /\ \E o \in Outcomes :
         /\ probed' = Append(probed, Probe(BaseUrl, o))
         /\ IF ~SH_curlFailOk(o)
            THEN /\ validation_result' = 1
                 /\ pc' = "returned"
            ELSE /\ validation_result' = validation_result
                 /\ pc' = "loop"
    /\ success_count' = 0
    /\ UNCHANGED <<script, hostingVars, success_rate, overall_status, stdout,
                   advancedVars, simpleVars, exitCode>>

\* One iteration of the for loop of run_comprehensive_validation.
SH_loop ==
    /\ script = "shell" /\ pc = "loop"
    /\ Len(stdout) < Len(SH_endpoints)
    /\ \E o \in Outcomes :
         LET endpoint == SH_endpoints[Len(stdout) + 1]
             line == validate_single_endpoint(endpoint, SH_httpCode(o))
         IN /\ probed' = Append(probed, Probe(endpoint.path, o))
            /\ stdout' = Append(stdout, line)
            /\ success_count' = IF line.rc = 0 THEN success_count + 1 ELSE success_count
    /\ UNCHANGED <<script, pc, hostingVars, success_rate, overall_status,
                   validation_result, advancedVars, simpleVars, exitCode>>

\* The validation summary of run_comprehensive_validation and its return.
run_comprehensive_validation ==
    /\ script = "shell" /\ pc = "loop"
    /\ Len(stdout) = Len(SH_endpoints)
    /\ success_rate' = SH_successRate(success_count, Len(SH_endpoints))
    /\ overall_status' = SH_overallStatus(success_rate')
    /\ validation_result' = SH_returnStatus(success_rate')
    /\ pc' = "returned"
    /\ UNCHANGED <<script, probed, hostingVars, success_count, stdout,
                   advancedVars, simpleVars, exitCode>>

\* Main execution: the diagnostics only print; exit $validation_result.
SH_main ==
    /\ script = "shell" /\ pc = "returned"
    /\ exitCode' = validation_result
    /\ pc' = "exited"
    /\ UNCHANGED <<script, probed, hostingVars, shellVars, advancedVars, simpleVars>>

----------------------------------------------------------------------------
(* The advanced validator                                                  *)

AV_endpoints == << "/", "/health", "/api/status" >>

\* validateBackendService of advanced-validate.js: true unless axios.get throws.
AV_validateBackendService(o) == AxiosResolves(o, DefaultValidateStatus(o.status))

\* allValid set by every probe, so that the last probe decides.
AV_allValid_Last(valid, o) == AxiosResolves(o, DefaultValidateStatus(o.status))

\* allValid after the loop body has run for one endpoint.
AV_allValid(valid, o) ==
    IF AxiosResolves(o, DefaultValidateStatus(o.status)) THEN valid ELSE FALSE

\* The loop of validateMultipleEndpoints goes on while endpoints are left.
AV_loopContinues(nProbed, valid) == nProbed < Len(AV_endpoints)

AV_exitCode(success) == IF success THEN 0 ELSE 1

\* completeValidation up to the first request of the loop.
AV_basicCheck ==
    /\ script = "advanced" /\ pc = "start"
    /\ \E o \in Outcomes :
         /\ probed' = Append(probed, Probe(BaseUrl, o))
         /\ isServiceRunning' = AV_validateBackendService(o)
         /\ IF isServiceRunning'
            THEN /\ completeResult' = completeResult
                 /\ pc' = "loop"
            ELSE /\ completeResult' = FALSE
                 /\ pc' = "returned"
    /\ allValid' = TRUE
    /\ UNCHANGED <<script, hostingVars, shellVars, simpleVars, exitCode>>

\* One iteration of the for loop of validateMultipleEndpoints.
AV_validateMultipleEndpoints ==
    /\ script = "advanced" /\ pc = "loop"
    /\ AV_loopContinues(Len(probed) - 1, allValid)
    /\ \E o \in Outcomes :
         /\ probed' = Append(probed, Probe(AV_endpoints[Len(probed)], o))
         /\ allValid' = AV_allValid(allValid, o)
    /\ UNCHANGED <<script, pc, hostingVars, shellVars, isServiceRunning,
                   completeResult, simpleVars, exitCode>>

\* The return of validateMultipleEndpoints and of completeValidation.
completeValidation ==
    /\ script = "advanced" /\ pc = "loop"
    /\ ~AV_loopContinues(Len(probed) - 1, allValid)
    /\ completeResult' = allValid
    /\ pc' = "returned"
    /\ UNCHANGED <<script, probed, hostingVars, shellVars, isServiceRunning,
                   allValid, simpleVars, exitCode>>

\* process.exit(success ? 0 : 1)
AV_exit ==
    /\ script = "advanced" /\ pc = "returned"
    /\ exitCode' = AV_exitCode(completeResult)
    /\ pc' = "exited"
    /\ UNCHANGED <<script, probed, hostingVars, shellVars, advancedVars, simpleVars>>

----------------------------------------------------------------------------
(* The simple validator                                                    *)

\* A promise that every call of resolve settles anew.
Resolve_Last(current, value) == value

\* resolve(value) of a promise: only the first call settles it.
Resolve(current, value) == IF current = "pending" THEN value ELSE current

\* The value the response callback resolves with.
VS_responseValue(statusCode) ==
    IF statusCode >= 200 /\ statusCode < 300 THEN "true" ELSE "false"

VS_seen(type) == \E i \in 1..Len(events) : events[i].type = type

\* The callback of http.request: a response arrived.
VS_response ==
    /\ script = "simple" /\ pc = "start"
    /\ ~VS_seen("response") /\ ~VS_seen("error") /\ ~destroyed
    /\ \E s \in Statuses :
         /\ events' = Append(events, [type |-> "response", status |-> s])
         /\ promise' = Resolve(promise, VS_responseValue(s))
    /\ UNCHANGED <<script, pc, probed, hostingVars, shellVars, advancedVars,
                   destroyed, exitCode>>

\* req.on('error'): a transport error, or the error req.destroy() raises.
VS_error ==
    /\ script = "simple" /\ pc = "start"
    /\ ~VS_seen("error")
    /\ events' = Append(events, [type |-> "error", status |-> 0])
    /\ promise' = Resolve(promise, "false")
    /\ UNCHANGED <<script, pc, probed, hostingVars, shellVars, advancedVars,
                   destroyed, exitCode>>

\* req.on('timeout'): destroys the request, then resolves false.
VS_timeout ==
    /\ script = "simple" /\ pc = "start"
    /\ ~VS_seen("error") /\ ~destroyed
    /\ events' = Append(events, [type |-> "timeout", status |-> 0])
    /\ destroyed' = TRUE
    /\ promise' = Resolve(promise, "false")
    /\ UNCHANGED <<script, pc, probed, hostingVars, shellVars, advancedVars, exitCode>>

\* runValidation after the await: process.exit(0) or process.exit(1).
runValidation ==
    /\ script = "simple" /\ pc = "start"
    /\ promise # "pending"
    /\ exitCode' = IF promise = "true" THEN 0 ELSE 1
    /\ pc' = "exited"
    /\ UNCHANGED <<script, probed, hostingVars, shellVars, advancedVars, simpleVars>>

----------------------------------------------------------------------------

Init ==
    /\ script \in Scripts
    /\ pc = "start"
    /\ probed = <<>>
    /\ basicResult = Null
    /\ results = <<>>
    /\ summary = Null
    /\ report = Null
    /\ success_count = 0
    /\ success_rate = 0
    /\ overall_status = ""
    /\ stdout = <<>>
    /\ validation_result = Null
    /\ isServiceRunning = FALSE
    /\ allValid = TRUE
    /\ completeResult = FALSE
    /\ events = <<>>
    /\ promise = "pending"
    /\ destroyed = FALSE
    /\ exitCode = Null

Next ==
    \/ HV_validateBackendService
    \/ HV_validateMultipleEndpoints
    \/ HV_comprehensiveHostValidation
    \/ hostingValidation
    \/ SH_basicConnectivity
    \/ SH_loop
    \/ run_comprehensive_validation
    \/ SH_main
    \/ AV_basicCheck
    \/ AV_validateMultipleEndpoints
    \/ completeValidation
    \/ AV_exit
    \/ VS_response
    \/ VS_error
    \/ VS_timeout
    \/ runValidation

Spec == Init /\ [][Next]_vars

----------------------------------------------------------------------------
(* Properties                                                              *)

Is2xx(o) == o.kind = "response" /\ o.status >= 200 /\ o.status < 300

Ended == pc \in {"returned", "exited"}

\* The run is past the basic connectivity test and the test passed.
HV_precheckPassed == script = "hosting" /\ pc # "start" /\ basicResult.success
SH_precheckPassed ==
    script = "shell" /\ pc # "start" /\ ~(pc \in {"returned", "exited"} /\ Len(probed) = 1)

\* C1: every recorded endpoint result is a success if and only if the probe
\* got a response whose status is in [200, 300); any other status and every
\* transport error is a failure.
C1_SuccessIff2xx ==
    /\ script = "hosting" =>
         \A i \in 1..Len(results) : results[i].success <=> Is2xx(probed[i + 1].outcome)
    /\ script = "shell" =>
         \A i \in 1..Len(stdout) : (stdout[i].rc = 0) <=> Is2xx(probed[i + 1].outcome)

C1_Witness ==
    /\ script = "hosting" /\ Len(results) = 3
    /\ results[1].status = 404 /\ ~results[1].success
    /\ results[2].status = 200 /\ results[2].success
    /\ results[3].code = "ECONNREFUSED" /\ ~results[3].success

StatusMatchesRate(rate, status) ==
    /\ (rate = 100) <=> (status = "HEALTHY")
    /\ (rate >= 50 /\ rate < 100) <=> (status = "DEGRADED")
    /\ (rate < 50) <=> (status = "UNHEALTHY")
    /\ status \in {"HEALTHY", "DEGRADED", "UNHEALTHY"}

\* C2: when the pre-check passed, the reported status is HEALTHY exactly at a
\* success rate of 100, DEGRADED exactly for 50 <= rate < 100 and UNHEALTHY
\* exactly below 50, and it is one of these three.
C2_StatusFromRate ==
    /\ (HV_precheckPassed /\ Ended) =>
         StatusMatchesRate(summary.successRate, report.overallStatus)
    /\ (SH_precheckPassed /\ Ended) =>
         StatusMatchesRate(success_rate, overall_status)

C2_Witness ==
    /\ SH_precheckPassed /\ Ended
    /\ success_rate = 50 /\ overall_status = "DEGRADED"

\* C3: the exit code is 0 if and only if the overall status is HEALTHY;
\* DEGRADED, UNHEALTHY and a failed pre-check all exit with 1.
C3_ExitCodeIffHealthy ==
    /\ (script = "hosting" /\ pc = "exited") =>
         /\ (exitCode = 0) <=> (report.overallStatus = "HEALTHY")
         /\ exitCode \in {0, 1}
    /\ (script = "shell" /\ pc = "exited") =>
         /\ (exitCode = 0) <=> (overall_status = "HEALTHY")
         /\ exitCode \in {0, 1}
         /\ ~SH_precheckPassed => exitCode = 1

C3_Witness ==
    /\ script = "hosting" /\ pc = "exited"
    /\ report.overallStatus = "DEGRADED" /\ exitCode = 1

ReportShape == {"url", "timestamp", "basicConnectivity", "detailedValidation", "overallStatus"}

\* C4: when the base-URL pre-check of the hosting validator fails, no endpoint
\* is probed, the report is FAILED with detailedValidation null and the usual
\* top-level fields, and the exit code is 1.
C4_PrecheckFailureSkipsLoop ==
    /\ (script = "hosting" /\ pc # "start" /\ ~basicResult.success) =>
         /\ Len(probed) = 1 /\ results = <<>>
         /\ Ended
         /\ report.overallStatus = "FAILED"
         /\ report.detailedValidation = Null
         /\ report.basicConnectivity = basicResult
         /\ pc = "exited" => exitCode = 1
    /\ (script = "hosting" /\ Ended) => DOMAIN report = ReportShape

C4_Witness ==
    /\ script = "hosting" /\ pc = "exited"
    /\ probed = << Probe(BaseUrl, TransportError("ECONNREFUSED")) >>
    /\ report.overallStatus = "FAILED" /\ exitCode = 1

\* rate is successful / total * 100 rounded to the nearest integer.
IsNearestPercent(rate, successful, total) ==
    LET d == rate * total - successful * 100
    IN 2 * (IF d < 0 THEN -d ELSE d) <= total

\* C5: in both validators the reported success rate is successful / total * 100
\* rounded to the nearest integer.
C5_RateIsRounded ==
    /\ (HV_precheckPassed /\ Ended) =>
         IsNearestPercent(summary.successRate, summary.successful, summary.total)
    /\ (SH_precheckPassed /\ Ended) =>
         IsNearestPercent(success_rate, success_count, Len(SH_endpoints))

\* C6: after the loop successful + failed = total, total is the number of
\* configured endpoints, one result is recorded per endpoint, and successful
\* counts the results with success = true.
C6_CountsAddUp ==
    /\ (HV_precheckPassed /\ Ended) =>
         /\ summary.successful + summary.failed = summary.total
         /\ summary.total = Len(HV_endpoints)
         /\ Len(results) = summary.total
         /\ summary.successful = Cardinality({i \in 1..Len(results) : results[i].success})
         /\ summary.failed = Cardinality({i \in 1..Len(results) : ~results[i].success})
    /\ (SH_precheckPassed /\ Ended) =>
         /\ Len(stdout) = Len(SH_endpoints)
         /\ success_count = Cardinality({i \in 1..Len(stdout) : stdout[i].rc = 0})
         /\ Len(SH_endpoints) - success_count
              = Cardinality({i \in 1..Len(stdout) : stdout[i].rc # 0})

C6_Witness ==
    /\ HV_precheckPassed /\ Ended
    /\ summary.successful = 2 /\ summary.failed = 3
    /\ results[1].success /\ results[5].success

\* C7: completeValidation returns true, and the process exits with 0, if and
\* only if the root pre-check and all three endpoint probes succeeded; a
\* failed pre-check ends the run without an endpoint probe; after a passed
\* pre-check all three endpoints are probed, whatever failed before.
C7_CompleteValidation ==
    (script = "advanced" /\ Ended) =>
        /\ completeResult <=>
             (Len(probed) = 1 + Len(AV_endpoints) /\ \A i \in 1..Len(probed) : Is2xx(probed[i].outcome))
        /\ ~Is2xx(probed[1].outcome) => Len(probed) = 1
        /\ Is2xx(probed[1].outcome) =>
             /\ Len(probed) = 1 + Len(AV_endpoints)
             /\ \A i \in 1..Len(AV_endpoints) : probed[i + 1].path = AV_endpoints[i]
        /\ pc = "exited" => (exitCode = 0) <=> completeResult
        /\ pc = "exited" => exitCode \in {0, 1}

C7_Witness ==
    /\ script = "advanced" /\ pc = "exited"
    /\ Len(probed) = 4
    /\ probed[2].outcome = Response(404)
    /\ Is2xx(probed[3].outcome) /\ Is2xx(probed[4].outcome)
    /\ exitCode = 1

HV_precheckFailedRun ==
    /\ ~basicResult.success
    /\ Len(probed) = 1 /\ results = <<>>
    /\ Ended /\ report.overallStatus = "FAILED"

\* C8 as claimed: the pre-check fails on every transport error and on every
\* status outside [200, 300), and the loop is then skipped with status FAILED.
C8_PrecheckUsesEndpointRule ==
    (script = "hosting" /\ pc # "start" /\ ~Is2xx(probed[1].outcome)) => HV_precheckFailedRun

\* C8 amended: the pre-check fails if and only if the base-URL probe yields a
\* transport error or a status of 500 or more; then the loop is skipped and
\* the status is FAILED. Every status below 500 passes the pre-check, and the
\* endpoint loop runs.
C8_PrecheckFailsOnErrorOr5xx ==
    (script = "hosting" /\ pc # "start") =>
        LET o == probed[1].outcome IN
        /\ ~basicResult.success <=> (o.kind = "error" \/ o.status >= 500)
        /\ ~basicResult.success => HV_precheckFailedRun
        /\ basicResult.success =>
             /\ pc = "loop" \/ Len(probed) = 1 + Len(HV_endpoints)
             /\ Ended => report.overallStatus # "FAILED"

C8_Witness ==
    /\ script = "hosting" /\ Ended
    /\ probed[1].outcome = Response(404)
    /\ basicResult.success
    /\ Len(probed) = 1 + Len(HV_endpoints)
    /\ report.overallStatus = "HEALTHY"

\* The answer recorded in a result is the answer the probe got.
HV_recorded(result, probe) ==
    /\ result.path = probe.path
    /\ probe.outcome.kind = "response" => result.status = probe.outcome.status
    /\ probe.outcome.kind = "error" => result.code = probe.outcome.code

\* C9: after a passed pre-check the endpoints are probed once each, in list
\* order, the i-th result is the result of the i-th endpoint, and a failed
\* probe does not end the loop: at the end every endpoint has been probed.
C9_ProbedOnceInOrder ==
    /\ HV_precheckPassed =>
         /\ Len(probed) <= 1 + Len(HV_endpoints)
         /\ Len(results) = Len(probed) - 1
         /\ \A i \in 1..Len(results) :
              /\ probed[i + 1].path = HV_endpoints[i].path
              /\ HV_recorded(results[i], probed[i + 1])
         /\ Ended => Len(probed) = 1 + Len(HV_endpoints)
    /\ SH_precheckPassed =>
         /\ Len(probed) <= 1 + Len(SH_endpoints)
         /\ Len(stdout) = Len(probed) - 1
         /\ \A i \in 1..Len(stdout) :
              /\ probed[i + 1].path = SH_endpoints[i].path
              /\ stdout[i].endpoint = SH_endpoints[i].path
              /\ stdout[i].http_code = probed[i + 1].outcome.status
         /\ Ended => Len(probed) = 1 + Len(SH_endpoints)

C9_Witness ==
    /\ HV_precheckPassed /\ Ended
    /\ probed[2].outcome = TransportError("ETIMEDOUT")
    /\ probed[3].outcome = Response(500)
    /\ probed[6].path = "/status" /\ results[5].success

\* C10: the promise of validateService is settled by the first event alone:
\* true for a response with a status in [200, 300), false for anything else;
\* no later event changes it, and the exit code is 0 iff it is true.
C10_FirstEventSettles ==
    script = "simple" =>
        /\ events = <<>> => promise = "pending"
        /\ events # <<>> =>
             promise = (IF events[1].type = "response"
                           /\ events[1].status >= 200 /\ events[1].status < 300
                        THEN "true" ELSE "false")
        /\ pc = "exited" => (exitCode = 0) <=> (promise = "true")
        /\ pc = "exited" => exitCode \in {0, 1}

C10_Witness ==
    /\ script = "simple" /\ pc = "exited"
    /\ Len(events) = 3
    /\ events[1] = [type |-> "response", status |-> 200]
    /\ events[2].type = "timeout" /\ events[3].type = "error"
    /\ promise = "true" /\ exitCode = 0

\* The status by the count of successful endpoints alone.
StatusByCount(successful, total) ==
    IF successful = total THEN "HEALTHY"
    ELSE IF 2 * successful >= total THEN "DEGRADED" ELSE "UNHEALTHY"

\* C11: in both validators the status is HEALTHY if and only if every endpoint
\* succeeded, DEGRADED if and only if at least half but not all did, and
\* UNHEALTHY if and only if fewer than half did; the rounded or truncated rate
\* gives the same status as the exact ratio, by the same rule in both.
C11_StatusByCount ==
    /\ (HV_precheckPassed /\ Ended) =>
         /\ summary.total = 5
         /\ report.overallStatus
              = StatusByCount(Cardinality({i \in 1..Len(results) : results[i].success}),
                              Len(HV_endpoints))
    /\ (SH_precheckPassed /\ Ended) =>
         /\ Len(SH_endpoints) = 6
         /\ overall_status
              = StatusByCount(Cardinality({i \in 1..Len(stdout) : stdout[i].rc = 0}),
                              Len(SH_endpoints))

C11_Witness ==
    /\ SH_precheckPassed /\ Ended
    /\ success_count = 4 /\ success_rate = 66
    /\ overall_status = "DEGRADED"

\* Every request of the run so far got the answer of the demo server.
DemoRun ==
    \A i \in 1..Len(probed) : probed[i].outcome = Response(DemoServer(probed[i].path))

\* C12: against the demo server the pre-check passes, exactly 3 endpoints
\* succeed, the hosting validator reports 60% and the shell validator 50%,
\* both report DEGRADED and exit with 1; HEALTHY and exit code 0 do not occur.
C12_DemoServerDegraded ==
    /\ (script = "hosting" /\ pc # "start" /\ DemoRun) =>
         /\ basicResult.success
         /\ Ended =>
              /\ summary.successful = 3 /\ summary.total = 5
              /\ summary.successRate = 60
              /\ report.overallStatus = "DEGRADED"
         /\ pc = "exited" => exitCode = 1
    /\ (script = "shell" /\ pc # "start" /\ DemoRun) =>
         /\ SH_precheckPassed
         /\ Ended =>
              /\ success_count = 3 /\ Len(stdout) = 6
              /\ success_rate = 50
              /\ overall_status = "DEGRADED"
         /\ pc = "exited" => exitCode = 1

C12_Witness ==
    /\ script = "hosting" /\ pc = "exited" /\ DemoRun
    /\ Len(probed) = 6
    /\ summary.successRate = 60
    /\ report.overallStatus = "DEGRADED" /\ exitCode = 1

====
